---- MODULE Spec2Model ----
(***************************************************************************)
(* ArkadasAI demo API (src/app.py): the two in-memory stores USERS and     *)
(* TOKENS, the millisecond clock read by mk_token, and the request tasks   *)
(* the event loop runs.  A handler without an await runs to completion in  *)
(* one step; chat_send is split at its `await asyncio.sleep(1.5)`.         *)
(* Strings the code transforms (emails, tokens, headers, plan strings,     *)
(* personas, ids) are sequences of one-character strings.                  *)
(***************************************************************************)
EXTENDS Integers, Sequences, FiniteSets, TLC

VARIABLES USERS, TOKENS, clock, tasks

vars == <<USERS, TOKENS, clock, tasks>>

\* ------------------------------------------------------------------ bounds
MaxTasks == 3
MaxClock == 2

\* ------------------------------------------------------- string primitives
UpperChars == <<"A","B","C","D","E","F","G","H","I","J","K","L","M",
                "N","O","P","Q","R","S","T","U","V","W","X","Y","Z">>
LowerChars == <<"a","b","c","d","e","f","g","h","i","j","k","l","m",
                "n","o","p","q","r","s","t","u","v","w","x","y","z">>
DigitChars == <<"0","1","2","3","4","5","6","7","8","9">>
Whitespace == {" ", "\t", "\n", "\r"}

IndexIn(c, alphabet) ==
    IF \E k \in 1..Len(alphabet) : alphabet[k] = c
    THEN CHOOSE k \in 1..Len(alphabet) : alphabet[k] = c
    ELSE 0

\* str.lower(), one character
LowerChar(c) == IF IndexIn(c, UpperChars) = 0 THEN c ELSE LowerChars[IndexIn(c, UpperChars)]

\* str.upper(), one character
UpperChar(c) == IF IndexIn(c, LowerChars) = 0 THEN c ELSE UpperChars[IndexIn(c, LowerChars)]

\* str.lower()
Lower(s) == [k \in 1..Len(s) |-> LowerChar(s[k])]

\* str.capitalize(): first character upper-cased, the rest lower-cased
Capitalize(s) == [k \in 1..Len(s) |-> IF k = 1 THEN UpperChar(s[k]) ELSE LowerChar(s[k])]

\* str.strip(): drops leading and trailing whitespace only
Strip(s) ==
    LET keep == {k \in 1..Len(s) : s[k] \notin Whitespace}
    IN  IF keep = {} THEN <<>>
        ELSE LET lo == CHOOSE k \in keep : \A m \in keep : k <= m
                 hi == CHOOSE k \in keep : \A m \in keep : m <= k
             IN  SubSeq(s, lo, hi)

\* str.replace(old, new) for one-character old and new
Replace(s, old, new) == [k \in 1..Len(s) |-> IF s[k] = old THEN new ELSE s[k]]

\* str.startswith(prefix)
StartsWith(s, prefix) ==
    /\ Len(s) >= Len(prefix)
    /\ SubSeq(s, 1, Len(prefix)) = prefix

\* s.split(sep, 1)[1]: everything after the first occurrence of sep
SplitAfterFirst(s, sep) ==
    LET hits == {k \in 1..Len(s) : s[k] = sep}
        first == CHOOSE k \in hits : \A m \in hits : k <= m
    IN  SubSeq(s, first + 1, Len(s))

\* str(n) / f"{n}" for a natural number
RECURSIVE IntToStr(_)
IntToStr(n) ==
    IF n < 10 THEN <<DigitChars[n + 1]>>
    ELSE IntToStr(n \div 10) \o <<DigitChars[(n % 10) + 1]>>

\* ------------------------------------------------------------ input values
EmailAt    == <<"a", "@", "b">>
EmailUnder == <<"a", "_", "b">>
EmailEmpty == <<>>
Emails == {EmailAt, EmailUnder, EmailEmpty}

Names == {"Ann"}

PlanPlusPadded == <<" ", "P", "L", "U", "S", " ">>
PlanProMixed   == <<"P", "r", "o">>
PlanGold       == <<"g", "o", "l", "d">>
PlanInnerSpace == <<"p", "l", " ", "u", "s">>
PlanInputs == {PlanPlusPadded, PlanProMixed, PlanGold, PlanInnerSpace}

NoPersona == <<>>
Personas == {<<<<"k", "A", "n", "k", "a">>>>}

BearerPrefix == <<"B", "e", "a", "r", "e", "r", " ">>
NoHeader == [present |-> FALSE, value |-> <<>>]
Header(s) == [present |-> TRUE, value |-> s]
Bearer(token) == Header(BearerPrefix \o token)
BogusToken == <<"x">>

\* ------------------------------------------------------- helper functions
\* f"demo_{int(time.time() * 1000)}_{email.replace('@', '_')}"
TokenString(ms, email) ==
    <<"d", "e", "m", "o", "_">> \o IntToStr(ms) \o <<"_">> \o Replace(email, "@", "_")

\* mk_token storing the email in the form it has inside the token, @ replaced
mk_token_stores_replaced_email(toks, ms, email) ==
    LET token == TokenString(ms, email)
    IN  [token |-> token,
         TOKENS |-> [t \in DOMAIN toks \cup {token} |->
                        IF t = token THEN Replace(email, "@", "_") ELSE toks[t]]]

\* mk_token: builds the token from the clock reading and stores TOKENS[token] = email
mk_token(toks, ms, email) ==
    LET token == TokenString(ms, email)
    IN  [token |-> token,
         TOKENS |-> [t \in DOMAIN toks \cup {token} |-> IF t = token THEN email ELSE toks[t]]]

Unauthorized(detail) == [ok |-> FALSE, email |-> <<>>, detail |-> detail]

\* get_email_from_token: `not x` is true of None and of the empty string
get_email_from_token(authorization, toks) ==
    IF \/ ~authorization.present
       \/ Len(authorization.value) = 0
       \/ ~StartsWith(authorization.value, BearerPrefix)
    THEN Unauthorized("Missing or invalid token")
    ELSE LET token == SplitAfterFirst(authorization.value, " ")
         IN  IF token \notin DOMAIN toks \/ Len(toks[token]) = 0
             THEN Unauthorized("Invalid token")
             ELSE [ok |-> TRUE, email |-> toks[token], detail |-> ""]

\* the id taken from the count before the insert, without the + 1
NewUserId_count_only(users) == <<"u", "s", "e", "r", "_">> \o IntToStr(Cardinality(DOMAIN users))

\* f"user_{len(USERS) + 1}"
NewUserId(users) == <<"u", "s", "e", "r", "_">> \o IntToStr(Cardinality(DOMAIN users) + 1)

\* the dict literal of register / login
NewUser(users, email, name) ==
    [id |-> NewUserId(users), email |-> email, name |-> name, plan |-> "Free"]

\* USERS[email] = record
PutUser(users, email, rec) ==
    [e \in DOMAIN users \cup {email} |-> IF e = email THEN rec ELSE users[e]]

\* persona = (payload.persona or <default>).lower().  The default's last letter
\* is U+015F, written here by name; lower() and capitalize() leave it as it is.
\* The fixed tail of the reply is one element, its non-ASCII letters transliterated.
DefaultPersona == <<"A", "r", "k", "a", "d", "a", "s-cedilla">>
PersonaOf(p) == Lower(IF p = NoPersona \/ Len(p[1]) = 0 THEN DefaultPersona ELSE p[1])
ReplyText(persona) == Capitalize(persona) \o <<" modu: Mesajini aldim - kisa demo yanit.">>

\* the plan lower-cased but not stripped
PlanLower_no_strip(plan) == Lower(plan)

\* plan_lower = data.plan.strip().lower()
PlanLower(plan) == Lower(Strip(plan))
\* plan_lower not in {"plus", "pro"};  "Plus" if plan_lower == "plus" else "Pro"
PlanAccepted(plan_lower) == plan_lower \in {<<"p", "l", "u", "s">>, <<"p", "r", "o">>}
CanonicalPlan(plan_lower) == IF plan_lower = <<"p", "l", "u", "s">> THEN "Plus" ELSE "Pro"

\* ------------------------------------------------------------------- tasks
\* One entry per request, in the order the event loop starts the handlers.  A
\* handler without an await runs from its first line to its return in one step, so
\* it is entered as done; chat_send stays "sleeping" across its await.
NoResp == [status |-> 0]
ErrorResp(status, detail) == [status |-> status, detail |-> detail]
Task(op, req, pc, resolved, resp) ==
    [op |-> op, req |-> req, pc |-> pc, resolved |-> resolved, resp |-> resp]
Done(op, req, resp) == Task(op, req, "done", <<>>, resp)

TaskIds == 1..Len(tasks)
CanStart == Len(tasks) < MaxTasks
Start(task) == tasks' = Append(tasks, task)

\* the Authorization values a client can send: none, an unknown token, or a token
\* the server has handed out
ClientHeaders == {NoHeader, Bearer(BogusToken)} \cup {Bearer(t) : t \in DOMAIN TOKENS}

\* both stores empty; clock counts the milliseconds since the first reading
Init ==
    /\ USERS = <<>>
    /\ TOKENS = <<>>
    /\ clock = 0
    /\ tasks = <<>>

\* time.time() advances between two reads, or does not.  Only mk_token reads the
\* clock, so a reading no token was made at is not told apart from the next one.
ReadingUsed == \E e \in Emails : TokenString(clock, e) \in DOMAIN TOKENS
Tick ==
    /\ clock < MaxClock
    /\ ReadingUsed
    /\ clock' = clock + 1
    /\ UNCHANGED <<USERS, TOKENS, tasks>>

\* register without the `if data.email in USERS` check
register_no_conflict_check(data) ==
    /\ CanStart
    /\ LET users == PutUser(USERS, data.email, NewUser(USERS, data.email, data.name))
           issued == mk_token(TOKENS, clock, data.email)
       IN  /\ USERS' = users
           /\ TOKENS' = issued.TOKENS
           /\ Start(Done("register", data, [status |-> 200, token |-> issued.token,
                                            user |-> users[data.email]]))
    /\ UNCHANGED clock

\* POST /auth/register
register(data) ==
    /\ CanStart
    /\ IF data.email \in DOMAIN USERS
       THEN /\ Start(Done("register", data, ErrorResp(409, "User already exists")))
            /\ UNCHANGED <<USERS, TOKENS>>
       ELSE LET users == PutUser(USERS, data.email, NewUser(USERS, data.email, data.name))
                issued == mk_token(TOKENS, clock, data.email)
            IN  /\ USERS' = users
                /\ TOKENS' = issued.TOKENS
                /\ Start(Done("register", data, [status |-> 200, token |-> issued.token,
                                                 user |-> users[data.email]]))
    /\ UNCHANGED clock

\* login without the `if data.email not in USERS` guard around the insert
login_always_insert(data) ==
    /\ CanStart
    /\ LET users == PutUser(USERS, data.email, NewUser(USERS, data.email, "Guest"))
           issued == mk_token(TOKENS, clock, data.email)
       IN  /\ USERS' = users
           /\ TOKENS' = issued.TOKENS
           /\ Start(Done("login", data, [status |-> 200, token |-> issued.token,
                                         user |-> users[data.email]]))
    /\ UNCHANGED clock

\* POST /auth/login
login(data) ==
    /\ CanStart
    /\ LET fresh == data.email \notin DOMAIN USERS
           users == IF fresh
                    THEN PutUser(USERS, data.email, NewUser(USERS, data.email, "Guest"))
                    ELSE USERS
           issued == mk_token(TOKENS, clock, data.email)
       IN  /\ USERS' = users
           /\ TOKENS' = issued.TOKENS
           /\ Start(Done("login", data, [status |-> 200, token |-> issued.token,
                                         user |-> users[data.email]]))
    /\ UNCHANGED clock

\* GET /me
me(req) ==
    /\ CanStart
    /\ LET auth == get_email_from_token(req.authorization, TOKENS)
       IN  IF ~auth.ok
           THEN Start(Done("me", req, ErrorResp(401, auth.detail)))
           ELSE Start(Done("me", req, [status |-> 200, user |-> USERS[auth.email]]))
    /\ UNCHANGED <<USERS, TOKENS, clock>>

\* chat_send renewing the caller's token before it sleeps
chat_send_renews_token(payload) ==
    /\ CanStart
    /\ LET auth == get_email_from_token(payload.authorization, TOKENS)
       IN  IF ~auth.ok
           THEN /\ Start(Done("chat", payload, ErrorResp(401, auth.detail)))
                /\ UNCHANGED TOKENS
           ELSE /\ Start(Task("chat", payload, "sleeping", <<auth.email>>, NoResp))
                /\ TOKENS' = mk_token(TOKENS, clock, auth.email).TOKENS
    /\ UNCHANGED <<USERS, clock>>

\* POST /chat/send, up to `await asyncio.sleep(1.5)`
chat_send(payload) ==
    /\ CanStart
    /\ LET auth == get_email_from_token(payload.authorization, TOKENS)
       IN  IF ~auth.ok
           THEN Start(Done("chat", payload, ErrorResp(401, auth.detail)))
           ELSE Start(Task("chat", payload, "sleeping", <<auth.email>>, NoResp))
    /\ UNCHANGED <<USERS, TOKENS, clock>>

\* chat_send answering with the plan the user had when the request started: the
\* plan of the last purchase that succeeded for the user before it, else Free
chat_send_resume_plan_from_start(i) ==
    /\ tasks[i].pc = "sleeping"
    /\ LET email == tasks[i].resolved[1]
           persona == PersonaOf(tasks[i].req.persona)
           earlier == {k \in 1..(i - 1) : /\ tasks[k].op = "purchase"
                                          /\ tasks[k].resp.status = 200
                                          /\ tasks[k].resp.user.email = email}
           plan == IF earlier = {} THEN "Free"
                   ELSE tasks[CHOOSE k \in earlier : \A m \in earlier : m <= k].resp.user.plan
           resp == [status |-> 200, sender |-> "assistant", reply |-> ReplyText(persona),
                    user_plan |-> plan]
       IN  tasks' = [tasks EXCEPT ![i].pc = "done", ![i].resp = resp]
    /\ UNCHANGED <<USERS, TOKENS, clock>>

\* chat_send reading the record under the token text instead of the email: the
\* lookup raises KeyError and the request ends in a 500
chat_send_resume_wrong_key(i) ==
    /\ tasks[i].pc = "sleeping"
    /\ tasks' = [tasks EXCEPT ![i].pc = "done",
                              ![i].resp = ErrorResp(500, "Internal Server Error")]
    /\ UNCHANGED <<USERS, TOKENS, clock>>

\* POST /chat/send, from the end of the sleep to the response
chat_send_resume(i) ==
    /\ tasks[i].pc = "sleeping"
    /\ LET email == tasks[i].resolved[1]
           persona == PersonaOf(tasks[i].req.persona)
           resp == [status |-> 200, sender |-> "assistant", reply |-> ReplyText(persona),
                    user_plan |-> USERS[email].plan]
       IN  tasks' = [tasks EXCEPT ![i].pc = "done", ![i].resp = resp]
    /\ UNCHANGED <<USERS, TOKENS, clock>>

\* purchase_confirm with the plan validated before the token is resolved
purchase_confirm_plan_first(data) ==
    /\ CanStart
    /\ LET auth == get_email_from_token(data.authorization, TOKENS)
           plan_lower == PlanLower(data.plan)
       IN  IF ~PlanAccepted(plan_lower)
           THEN /\ Start(Done("purchase", data, ErrorResp(400, "plan must be Plus or Pro")))
                /\ UNCHANGED USERS
           ELSE IF ~auth.ok
           THEN /\ Start(Done("purchase", data, ErrorResp(401, auth.detail)))
                /\ UNCHANGED USERS
           ELSE LET users == [USERS EXCEPT ![auth.email].plan = CanonicalPlan(plan_lower)]
                IN  /\ USERS' = users
                    /\ Start(Done("purchase", data, [status |-> 200, user |-> users[auth.email]]))
    /\ UNCHANGED <<TOKENS, clock>>

\* purchase_confirm writing the plan into every record
purchase_confirm_every_user(data) ==
    /\ CanStart
    /\ LET auth == get_email_from_token(data.authorization, TOKENS)
           plan_lower == PlanLower(data.plan)
       IN  IF ~auth.ok
           THEN /\ Start(Done("purchase", data, ErrorResp(401, auth.detail)))
                /\ UNCHANGED USERS
           ELSE IF ~PlanAccepted(plan_lower)
           THEN /\ Start(Done("purchase", data, ErrorResp(400, "plan must be Plus or Pro")))
                /\ UNCHANGED USERS
           ELSE LET users == [e \in DOMAIN USERS |->
                                 [USERS[e] EXCEPT !.plan = CanonicalPlan(plan_lower)]]
                IN  /\ USERS' = users
                    /\ Start(Done("purchase", data, [status |-> 200, user |-> users[auth.email]]))
    /\ UNCHANGED <<TOKENS, clock>>

\* POST /purchase/confirm
purchase_confirm(data) ==
    /\ CanStart
    /\ LET auth == get_email_from_token(data.authorization, TOKENS)
           plan_lower == PlanLower(data.plan)
       IN  IF ~auth.ok
           THEN /\ Start(Done("purchase", data, ErrorResp(401, auth.detail)))
                /\ UNCHANGED USERS
           ELSE IF ~PlanAccepted(plan_lower)
           THEN /\ Start(Done("purchase", data, ErrorResp(400, "plan must be Plus or Pro")))
                /\ UNCHANGED USERS
           ELSE LET users == [USERS EXCEPT ![auth.email].plan = CanonicalPlan(plan_lower)]
                IN  /\ USERS' = users
                    /\ Start(Done("purchase", data, [status |-> 200, user |-> users[auth.email]]))
    /\ UNCHANGED <<TOKENS, clock>>

\* the requests clients send
Register == \E e \in Emails, n \in Names : register([email |-> e, name |-> n])
Login == \E e \in Emails : login([email |-> e])
Me == \E h \in ClientHeaders : me([authorization |-> h])
ChatSend == \E h \in ClientHeaders, p \in Personas : chat_send([authorization |-> h, persona |-> p])
ChatResume == \E i \in TaskIds : chat_send_resume(i)
PurchaseConfirm ==
    \E h \in ClientHeaders, p \in PlanInputs : purchase_confirm([authorization |-> h, plan |-> p])

Next ==
    \/ Tick
    \/ Register
    \/ Login
    \/ Me
    \/ ChatSend
    \/ ChatResume
    \/ PurchaseConfirm

Spec == Init /\ [][Next]_vars

\* the event loop wakes every task whose sleep has run out: each sleeping chat_send
\* is resumed eventually
ResumeTask(i) == i \in TaskIds /\ chat_send_resume(i)
\* the requests of the fair runs: two accounts whose tokens collide, one accepted
\* plan, and an unknown bearer token only on the chat and purchase calls
FairEmails == {EmailAt, EmailUnder}
FairPlans == {PlanProMixed}
FairRequest(task) ==
    /\ task.op \in {"register", "login"} => task.req.email \in FairEmails
    /\ task.op = "purchase" => task.req.plan \in FairPlans
    /\ task.op = "me" => task.req.authorization # Bearer(BogusToken)
FairRequests == \A i \in TaskIds : FairRequest(tasks[i])
FairNext ==
    \/ Tick /\ FairRequests'
    \/ Register /\ FairRequests'
    \/ Login /\ FairRequests'
    \/ Me /\ FairRequests'
    \/ ChatSend /\ FairRequests'
    \/ ChatResume /\ FairRequests'
    \/ PurchaseConfirm /\ FairRequests'
FairSpec == Init /\ [][FairNext]_vars /\ \A i \in 1..MaxTasks : WF_vars(ResumeTask(i))

\* ----------------------------------------------------------------- history
\* tasks is in the order the handlers ran, so it is the record of what happened.
IsAccountCall(i) == tasks[i].op = "register" \/ tasks[i].op = "login"
Issuances == {i \in TaskIds : IsAccountCall(i) /\ tasks[i].resp.status = 200}
AccountCalls(e) == {i \in TaskIds : IsAccountCall(i) /\ tasks[i].req.email = e}
\* the calls that found their email absent: the first register or login naming it
Creators ==
    {i \in TaskIds : /\ IsAccountCall(i)
                     /\ \A j \in 1..(i - 1) :
                           ~(IsAccountCall(j) /\ tasks[j].req.email = tasks[i].req.email)}
CreationRank(i) == Cardinality({j \in Creators : j <= i})
UserIdText(k) == <<"u", "s", "e", "r", "_">> \o IntToStr(k)

\* the step that runs a handler appends its task
NewTask == tasks'[Len(tasks')]
Starts(op) == Len(tasks') = Len(tasks) + 1 /\ NewTask.op = op
Registers(e) == {i \in TaskIds : tasks[i].op = "register" /\ tasks[i].req.email = e}
Logins(e) == {i \in TaskIds : tasks[i].op = "login" /\ tasks[i].req.email = e}

\* the text after the scheme prefix of an Authorization value
TokenText(h) == SubSeq(h.value, Len(BearerPrefix) + 1, Len(h.value))
CarriesKnownToken(h) ==
    /\ h.present
    /\ StartsWith(h.value, BearerPrefix)
    /\ TokenText(h) \in DOMAIN TOKENS
\* no Authorization header, or a bearer token that is not in TOKENS
Unauthenticated(h) ==
    \/ ~h.present
    \/ StartsWith(h.value, BearerPrefix) /\ TokenText(h) \notin DOMAIN TOKENS
\* Authorization values to resolve: absent, empty, no scheme, wrong-case scheme,
\* scheme without the space, unknown token, and every stored token
AuthCandidates ==
    {NoHeader, Header(<<>>), Header(BogusToken), Bearer(BogusToken), Bearer(<<>>)}
        \cup {Bearer(t) : t \in DOMAIN TOKENS}
        \cup {Header(t) : t \in DOMAIN TOKENS}
        \cup {Header(<<"b", "e", "a", "r", "e", "r", " ">> \o t) : t \in DOMAIN TOKENS}
        \cup {Header(<<"B", "e", "a", "r", "e", "r">> \o t) : t \in DOMAIN TOKENS}
\* what trimming and lower-casing make of the plan strings the clients send:
\* " PLUS " is plus, "Pro" is pro, "gold" and "pl us" are neither
CanonicalOf(plan) ==
    IF plan = PlanPlusPadded THEN "Plus" ELSE IF plan = PlanProMixed THEN "Pro" ELSE "none"

\* the tier order of the plan catalog: Free, Plus, Pro
PlanTier(plan) == IF plan = "Free" THEN 0 ELSE IF plan = "Plus" THEN 1 ELSE 2
\* the step is a purchase_confirm that answered 200
PurchaseSucceeds == Starts("purchase") /\ NewTask.resp.status = 200

\* the step in which chat_send i comes back from its sleep and returns
Resumes(i) == i \in TaskIds /\ tasks[i].pc = "sleeping" /\ tasks'[i].pc = "done"

\* ------------------------------------------------------------------ claims

\* C1 (as stated; the code breaks it): every token a register or login call has
\* returned is still a key of TOKENS and still maps to the email it was issued for.
C1_TokenStability ==
    \A i \in Issuances :
        /\ tasks[i].resp.token \in DOMAIN TOKENS
        /\ TOKENS[tasks[i].resp.token] = tasks[i].req.email

\* C2 (as stated; the code breaks it): two different successful register/login
\* calls never return the same token, so k issuances leave k keys in TOKENS.
C2_TokenUniqueness ==
    /\ \A i, j \in Issuances : i # j => tasks[i].resp.token # tasks[j].resp.token
    /\ Cardinality(DOMAIN TOKENS) = Cardinality(Issuances)

\* C3: the stored records are exactly those of the N calls that created one, their
\* ids are user_1 .. user_N in creation order, each used once; a failed register
\* and a login of a known email add no record and use no id.
C3_SequentialIds ==
    /\ DOMAIN USERS = {tasks[i].req.email : i \in Creators}
    /\ Cardinality(DOMAIN USERS) = Cardinality(Creators)
    /\ \A i \in Creators :
          /\ tasks[i].resp.status = 200
          /\ tasks[i].resp.user.id = UserIdText(CreationRank(i))
          /\ USERS[tasks[i].req.email].id = UserIdText(CreationRank(i))
    /\ {USERS[e].id : e \in DOMAIN USERS} = {UserIdText(k) : k \in 1..Cardinality(DOMAIN USERS)}

\* two records, the first made by an auto-provisioning login and the second by a
\* register, with a call that created nothing in between
C3_Witness ==
    /\ Cardinality(DOMAIN USERS) = 2
    /\ \E i, j \in Creators : tasks[i].op = "register" /\ tasks[j].op = "login" /\ j < i
    /\ \E k \in TaskIds : k \notin Creators /\ tasks[k].op \in {"register", "login"}
                             /\ \E i \in Creators : k < i

\* C4: a register call for an email that is already a key of USERS answers 409
\* and leaves USERS and TOKENS exactly as they were.
C4_DuplicateRegister ==
    [][(Starts("register") /\ NewTask.req.email \in DOMAIN USERS)
         => /\ NewTask.pc = "done"
            /\ NewTask.resp = ErrorResp(409, "User already exists")
            /\ USERS' = USERS
            /\ TOKENS' = TOKENS]_vars

\* a register refused for an email that an auto-provisioning login had created,
\* the record still the one the login returned
C4_Witness ==
    \E i, j \in TaskIds :
        /\ i < j
        /\ tasks[i].op = "login" /\ i \in Creators
        /\ tasks[j].op = "register" /\ tasks[j].req.email = tasks[i].req.email
        /\ tasks[j].resp.status = 409
        /\ USERS[tasks[i].req.email] = tasks[i].resp.user

\* C5: of the register calls made for one email that no login names, exactly one
\* succeeds, every other one fails with 409, and exactly one record has that email.
C5_SameEmailRegisterRace ==
    \A e \in Emails :
        (Registers(e) # {} /\ Logins(e) = {})
          => LET winners == {i \in Registers(e) : tasks[i].resp.status = 200}
             IN  /\ Cardinality(winners) = 1
                 /\ \A i \in Registers(e) \ winners : tasks[i].resp.status = 409
                 /\ Cardinality({u \in DOMAIN USERS : USERS[u].email = e}) = 1
                 /\ \A i \in winners : /\ USERS[e].id = tasks[i].resp.user.id
                                       /\ USERS[e].name = tasks[i].req.name

\* three register calls for one email and nothing else: one 200 and two 409
C5_Witness ==
    /\ Len(tasks) = 3
    /\ \E e \in Emails : Registers(e) = {1, 2, 3}
    /\ Cardinality({i \in TaskIds : tasks[i].resp.status = 409}) = 2
    /\ Cardinality({i \in TaskIds : tasks[i].resp.status = 200}) = 1

\* C6: when one register and one login name the same email, whichever runs first
\* creates the only record for it; the login succeeds and returns that record, the
\* register gets 409 exactly when the login ran first, and the record keeps the
\* id, email and name it was created with.
C6_RegisterLoginRace ==
    \A e \in Emails : \A r \in Registers(e) : \A l \in Logins(e) :
        /\ tasks[l].resp.status = 200
        /\ e \in DOMAIN USERS
        /\ Cardinality({u \in DOMAIN USERS : USERS[u].email = e}) = 1
        /\ Cardinality({i \in Creators : tasks[i].req.email = e}) = 1
        /\ tasks[l].resp.user.id = USERS[e].id
        /\ tasks[l].resp.user.email = e
        /\ tasks[l].resp.user.name = USERS[e].name
        /\ (AccountCalls(e) = {r, l})
             => /\ (tasks[r].resp.status = 409) <=> (l < r)
                /\ (tasks[r].resp.status = 200) <=> (r < l)
                /\ (l < r) => USERS[e].name = "Guest" /\ USERS[e].id = tasks[l].resp.user.id
                /\ (r < l) => /\ USERS[e].name = tasks[r].req.name
                              /\ USERS[e].id = tasks[r].resp.user.id
                              /\ tasks[l].resp.user.id = tasks[r].resp.user.id

\* the register ran first and won, the login then returned the register's record,
\* while another email's record was created in between
C6_Witness ==
    \E e \in Emails : \E r \in Registers(e) : \E l \in Logins(e) :
        /\ AccountCalls(e) = {r, l}
        /\ r < l
        /\ tasks[r].resp.status = 200
        /\ tasks[l].resp.user.name = "Ann"
        /\ tasks[l].resp.user.id = tasks[r].resp.user.id
        /\ Cardinality(DOMAIN USERS) = 2

\* C7 (as stated; the code breaks it): a register call for an email not yet in
\* USERS succeeds, and a later /me carrying the token it returned, with no
\* successful purchase for that email in between, answers 200 with the record
\* (email e, name n, plan Free).
C7_RegisterThenMe ==
    \A i \in TaskIds :
        (tasks[i].op = "register" /\ i \in Creators)
          => /\ tasks[i].resp.status = 200
             /\ \A j \in TaskIds :
                   ( /\ i < j
                     /\ tasks[j].op = "me"
                     /\ tasks[j].req.authorization = Bearer(tasks[i].resp.token)
                     /\ \A k \in (i + 1)..(j - 1) :
                           ~( /\ tasks[k].op = "purchase"
                              /\ tasks[k].resp.status = 200
                              /\ tasks[k].resp.user.email = tasks[i].req.email ) )
                     => /\ tasks[j].resp.status = 200
                        /\ tasks[j].resp.user.email = tasks[i].req.email
                        /\ tasks[j].resp.user.name = tasks[i].req.name
                        /\ tasks[j].resp.user.plan = "Free"

\* C8 (as stated; the code breaks it): resolving an Authorization value succeeds
\* exactly when it is present, starts with "Bearer " and the rest is a key of
\* TOKENS, whatever email the key maps to, and then yields the mapped email;
\* otherwise it fails (401).
C8_AuthResolution ==
    \A h \in AuthCandidates :
        LET auth == get_email_from_token(h, TOKENS)
        IN  /\ auth.ok <=> CarriesKnownToken(h)
            /\ auth.ok => auth.email = TOKENS[TokenText(h)]
            /\ ~auth.ok => auth.detail \in {"Missing or invalid token", "Invalid token"}

\* C9: a /me, /chat/send or /purchase/confirm request with no Authorization header
\* or with a bearer token that is not in TOKENS is answered 401 in the step that
\* starts it (chat_send never reaches its sleep), whatever plan the body names,
\* and USERS and TOKENS are unchanged.
C9_UnauthenticatedNoEffect ==
    [][( /\ Len(tasks') = Len(tasks) + 1
         /\ NewTask.op \in {"me", "chat", "purchase"}
         /\ Unauthenticated(NewTask.req.authorization) )
         => /\ NewTask.pc = "done"
            /\ NewTask.resp.status = 401
            /\ USERS' = USERS
            /\ TOKENS' = TOKENS]_vars

\* with a user and a token in the stores: a purchase naming a valid plan without
\* a header and a chat with an unknown token, both answered 401, the plan still Free
C9_Witness ==
    /\ DOMAIN TOKENS # {}
    /\ \A e \in DOMAIN USERS : USERS[e].plan = "Free"
    /\ \E i, j \in TaskIds :
          /\ tasks[i].op = "purchase"
          /\ tasks[i].req = [authorization |-> NoHeader, plan |-> PlanPlusPadded]
          /\ tasks[i].resp.status = 401
          /\ tasks[j].op = "chat"
          /\ tasks[j].req.authorization = Bearer(BogusToken)
          /\ tasks[j].pc = "done"
          /\ tasks[j].resp.status = 401

\* C10: a purchase whose token resolves to user e succeeds exactly when the plan,
\* trimmed and lower-cased, is "plus" or "pro"; then e's stored plan becomes "Plus"
\* or "Pro" accordingly, nothing else of the record changes and the response holds
\* the updated record; otherwise the answer is 400 and USERS is unchanged.
C10_PurchaseValidation ==
    [][Starts("purchase")
         => LET data == NewTask.req
                auth == get_email_from_token(data.authorization, TOKENS)
                e == auth.email
                target == CanonicalOf(data.plan)
            IN  auth.ok
                  => /\ PlanAccepted(PlanLower(data.plan)) <=> target # "none"
                     /\ target # "none"
                          => /\ NewTask.resp.status = 200
                             /\ USERS' = [USERS EXCEPT ![e].plan = target]
                             /\ NewTask.resp.user = USERS'[e]
                     /\ target = "none"
                          => /\ NewTask.resp = ErrorResp(400, "plan must be Plus or Pro")
                             /\ USERS' = USERS]_vars

\* " PLUS " accepted and stored as Plus, then "gold" refused with the plan kept
C10_Witness ==
    \E i, j \in TaskIds :
        /\ i < j
        /\ tasks[i].op = "purchase" /\ tasks[i].req.plan = PlanPlusPadded
        /\ tasks[i].resp.status = 200 /\ tasks[i].resp.user.plan = "Plus"
        /\ tasks[j].op = "purchase" /\ tasks[j].req.plan = PlanGold
        /\ tasks[j].req.authorization = tasks[i].req.authorization
        /\ tasks[j].resp.status = 400
        /\ USERS[tasks[i].resp.user.email].plan = "Plus"

\* C11: a record is created with plan Free, its plan changes only in a step that is
\* a successful purchase_confirm, and a plan that is Plus or Pro is not Free after
\* any step.
C11_FreeUnreachableOnceLeft ==
    [][/\ \A e \in DOMAIN USERS' \ DOMAIN USERS : USERS'[e].plan = "Free"
       /\ \A e \in DOMAIN USERS :
             /\ e \in DOMAIN USERS'
             /\ USERS'[e].plan # USERS[e].plan => PurchaseSucceeds
             /\ USERS[e].plan # "Free" => USERS'[e].plan # "Free"]_vars

\* a user moved to Plus, and a login for the same email afterwards: still Plus
C11_Witness ==
    \E i, j \in TaskIds :
        /\ i < j
        /\ tasks[i].op = "purchase" /\ tasks[i].resp.status = 200
        /\ tasks[i].resp.user.plan = "Plus"
        /\ tasks[j].op = "login" /\ tasks[j].req.email = tasks[i].resp.user.email
        /\ tasks[j].resp.user.plan = "Plus"
        /\ USERS[tasks[j].req.email].plan = "Plus"

\* C12 (as stated; refuted): no step moves a stored plan to a lower tier under
\* Free < Plus < Pro.
C12_NoDowngrade ==
    [][\A e \in DOMAIN USERS : PlanTier(USERS'[e].plan) >= PlanTier(USERS[e].plan)]_vars

\* C12 (amended): the only step that lowers a stored plan is a successful
\* purchase_confirm naming plus for a user whose plan is Pro; it stores Plus.  No
\* step lowers a plan to Free.
C12_OnlyProToPlus ==
    [][\A e \in DOMAIN USERS :
          PlanTier(USERS'[e].plan) < PlanTier(USERS[e].plan)
            => /\ USERS[e].plan = "Pro"
               /\ USERS'[e].plan = "Plus"
               /\ PurchaseSucceeds
               /\ NewTask.resp.user.email = e
               /\ PlanLower(NewTask.req.plan) = <<"p", "l", "u", "s">>]_vars

\* a user taken to Pro and then, by a second purchase, to Plus
C12_Witness ==
    \E i, j \in TaskIds :
        /\ i < j
        /\ tasks[i].op = "purchase" /\ tasks[i].resp.status = 200
        /\ tasks[i].resp.user.plan = "Pro"
        /\ tasks[j].op = "purchase" /\ tasks[j].resp.status = 200
        /\ tasks[j].resp.user.email = tasks[i].resp.user.email
        /\ tasks[j].resp.user.plan = "Plus"
        /\ USERS[tasks[j].resp.user.email].plan = "Plus"

\* C13 (as stated; the code breaks it): a login always answers 200; for an email not
\* in USERS it creates the record (name Guest, plan Free), for a known email it
\* changes no record (same id and name, plan not reset); it returns the record as
\* stored and issues a further token, one that was not in TOKENS before, for the email.
C13_LoginGetOrCreate ==
    [][Starts("login")
         => LET e == NewTask.req.email
            IN  /\ NewTask.resp.status = 200
                /\ e \notin DOMAIN USERS
                     => /\ USERS'[e].email = e
                        /\ USERS'[e].name = "Guest"
                        /\ USERS'[e].plan = "Free"
                        /\ \A u \in DOMAIN USERS : USERS'[u] = USERS[u]
                /\ e \in DOMAIN USERS => USERS' = USERS
                /\ NewTask.resp.user = USERS'[e]
                /\ NewTask.resp.token \notin DOMAIN TOKENS
                /\ DOMAIN TOKENS' = DOMAIN TOKENS \cup {NewTask.resp.token}
                /\ TOKENS'[NewTask.resp.token] = e]_vars

\* C14 (as stated; the code breaks it): when two different tokens have been issued
\* for one email, a /me carrying either of them answers 200 with the record stored
\* for that email at that moment.
C14_AllTokensSeeOneRecord ==
    [][Starts("me")
         => \A i, j \in Issuances :
               ( /\ tasks[i].req.email = tasks[j].req.email
                 /\ tasks[i].resp.token # tasks[j].resp.token
                 /\ NewTask.req.authorization = Bearer(tasks[i].resp.token) )
                 => /\ NewTask.resp.status = 200
                    /\ NewTask.resp.user = USERS[tasks[i].req.email]]_vars

\* C15: the user_plan of a chat_send response is the plan stored for the user in
\* the state the response is built in, whatever the plan was when the request
\* started and whatever ran during the sleep.
C15_ChatReadsPlanAfterDelay ==
    [][\A i \in TaskIds :
          Resumes(i)
            => /\ tasks'[i].resp.status = 200
               /\ tasks'[i].resp.user_plan = USERS[tasks[i].resolved[1]].plan
               /\ tasks'[i].resp.user_plan = USERS'[tasks[i].resolved[1]].plan]_vars

\* a chat_send that started while its user's plan was Free, a purchase for that
\* user that started and completed during the sleep, and the response says Pro
C15_Witness ==
    \E i, k \in TaskIds :
        /\ i < k
        /\ tasks[i].op = "chat" /\ tasks[i].pc = "done" /\ tasks[i].resp.status = 200
        /\ tasks[k].op = "purchase" /\ tasks[k].resp.status = 200
        /\ tasks[k].resp.user.email = tasks[i].resolved[1]
        /\ tasks[k].resp.user.plan = "Pro"
        /\ \A m \in 1..(i - 1) : tasks[m].op # "purchase"
        /\ tasks[i].resp.user_plan = "Pro"

\* C16: after any step a record that existed before still exists with the same id,
\* email and name; a step that changes a record at all is a successful
\* purchase_confirm, and the record differs from the old one in its plan only.
C16_FieldsFrozenExceptPlan ==
    [][\A e \in DOMAIN USERS :
          /\ e \in DOMAIN USERS'
          /\ USERS'[e].id = USERS[e].id
          /\ USERS'[e].email = USERS[e].email
          /\ USERS'[e].name = USERS[e].name
          /\ DOMAIN USERS'[e] = DOMAIN USERS[e]
          /\ USERS'[e] # USERS[e]
               => /\ PurchaseSucceeds
                  /\ USERS'[e] = [USERS[e] EXCEPT !.plan = NewTask.resp.user.plan]]_vars

\* a record made by register, then a login for the same email, then a purchase:
\* the record has the id and name register gave it and a new plan
C16_Witness ==
    \E r, l, p \in TaskIds :
        /\ r < l /\ l < p
        /\ tasks[r].op = "register" /\ tasks[r].resp.status = 200
        /\ tasks[l].op = "login" /\ tasks[l].req.email = tasks[r].req.email
        /\ tasks[p].op = "purchase" /\ tasks[p].resp.status = 200
        /\ tasks[p].resp.user.email = tasks[r].req.email
        /\ USERS[tasks[r].req.email] = [tasks[r].resp.user EXCEPT !.plan = "Pro"]

\* C17: neither step of a chat_send, its start (which may reject it) nor its
\* return after the sleep, changes USERS or TOKENS.
C17_ChatSendReadOnly ==
    [][(Starts("chat") \/ \E i \in TaskIds : Resumes(i))
         => USERS' = USERS /\ TOKENS' = TOKENS]_vars

\* a chat_send answered 200 after a record and a token were created by another
\* request while it slept
C17_Witness ==
    \E i \in TaskIds :
        /\ tasks[i].op = "chat" /\ tasks[i].pc = "done" /\ tasks[i].resp.status = 200
        /\ \E k \in Creators : i < k
        /\ Cardinality(DOMAIN TOKENS) >= 2

\* C18: every email that is a value of TOKENS is a key of USERS, the record stored
\* under a key carries that key as its email, and the email a sleeping chat_send
\* holds is a key of USERS: no lookup after a resolved token misses.
C18_TokensPointAtUsers ==
    /\ \A t \in DOMAIN TOKENS : TOKENS[t] \in DOMAIN USERS
    /\ \A e \in DOMAIN USERS : USERS[e].email = e
    /\ \A i \in TaskIds : tasks[i].pc = "sleeping" => tasks[i].resolved[1] \in DOMAIN USERS
    /\ \A i \in TaskIds :
          (tasks[i].op \in {"me", "purchase"} /\ tasks[i].resp.status = 200)
            => tasks[i].resp.user.email \in DOMAIN USERS

\* two users with a token each and a chat_send asleep between its token check and
\* its read of USERS
C18_Witness ==
    /\ Cardinality({TOKENS[t] : t \in DOMAIN TOKENS}) = 2
    /\ \E i \in TaskIds : tasks[i].pc = "sleeping"

\* C19: a successful purchase_confirm whose token resolves to e changes the plan
\* of e's record and nothing else: the other records, the keys of USERS and all of
\* TOKENS are as before.
C19_PurchaseIsolated ==
    [][PurchaseSucceeds
         => LET e == get_email_from_token(NewTask.req.authorization, TOKENS).email
            IN  /\ DOMAIN USERS' = DOMAIN USERS
                /\ \A u \in DOMAIN USERS \ {e} : USERS'[u] = USERS[u]
                /\ USERS'[e] = [USERS[e] EXCEPT !.plan = USERS'[e].plan]
                /\ NewTask.resp.user.email = e
                /\ TOKENS' = TOKENS]_vars

\* two users, a successful purchase by the second one: the first is still Free
C19_Witness ==
    /\ Cardinality(DOMAIN USERS) = 2
    /\ \E p \in TaskIds :
          /\ tasks[p].op = "purchase" /\ tasks[p].resp.status = 200
          /\ USERS[tasks[p].resp.user.email].plan = "Plus"
          /\ \E u \in DOMAIN USERS : u # tasks[p].resp.user.email /\ USERS[u].plan = "Free"

\* C20: under the event loop's fairness every chat_send that passed the token check
\* ends done with a 200 response, whatever runs meanwhile: again and again all the
\* authenticated chat_send calls made so far have answered 200. A task's response
\* never changes once it is done, so one call left asleep for ever, or one ended
\* in an error, would make this false from then on.
C20_ChatEventuallyAnswers ==
    []<>(\A i \in TaskIds :
            (tasks[i].op = "chat" /\ tasks[i].resolved # <<>>)
                => (tasks[i].pc = "done" /\ tasks[i].resp.status = 200))

\* a chat_send answered 200 after a register, a login or a purchase ran while it
\* slept
C20_Witness ==
    \E i, k \in TaskIds :
        /\ i < k
        /\ tasks[i].op = "chat" /\ tasks[i].pc = "done" /\ tasks[i].resp.status = 200
        /\ tasks[k].op \in {"register", "login", "purchase"}
        /\ tasks[k].resp.status = 200
        /\ tasks[i].resp.sender = "assistant"

====
